---- MODULE Spec2Model ----
(***************************************************************************)
(* State-machine model of the binary-arbitrage engine: RiskManager         *)
(* (src/src/risk.rs), ExecutionEngine (src/src/execution.rs), the books,   *)
(* normalization tracker, notification channel and reconnect loop of       *)
(* MarketMonitor (src/src/market.rs) and the pipeline of StrategyEngine    *)
(* (src/src/strategy.rs).                                                  *)
(*                                                                         *)
(* rust_decimal values are modelled as fixed-point integers with two       *)
(* decimal places: a price 0.40 is 40, a balance 1000 is 100000.  A        *)
(* product of two such values carries four decimal places, so a            *)
(* comparison of a two-place value with a product scales the former by     *)
(* Scale.  Within the bounds used here Decimal arithmetic is exact.        *)
(***************************************************************************)
EXTENDS Integers, Sequences, FiniteSets, TLC

\* ------------------------------------------------------------- constants

\* One unit (1.00) in fixed-point hundredths, the scale of Decimal::new(99, 2).
Scale == 100

\* main.rs: let initial_balance = Decimal::from(1000)
InitialBalanceUnits == 1000
initial_balance == InitialBalanceUnits * Scale

\* config.rs defaults, in hundredths: 0.02, 0.01, 0.99, 3
max_daily_loss_pct == 2
max_trade_capital_pct == 1
normalization_threshold == 99
normalization_updates == 3

\* market.rs: broadcast::channel(100)
BroadcastCapacity == 100

\* usize::next_power_of_two: tokio's broadcast::channel allocates that many
\* slots for the capacity it is asked for
next_power_of_two(n) ==
    CHOOSE p \in {2^k : k \in 0..16} : p >= n /\ \A q \in {2^k : k \in 0..16} : q >= n => p <= q

\* The number of values the channel retains for a receiver that is behind
BufferLen == next_power_of_two(BroadcastCapacity)

\* config.rs defaults: min_edge 0.05 (hundredths), min_liquidity_multiplier 5,
\* trade_cooldown_ms 30000
min_edge == 5
min_liquidity_multiplier == 5
trade_cooldown_ms == 30000

\* strategy.rs: const TAKER_FEE: Decimal = Decimal::ZERO (hundredths)
TAKER_FEE == 0

\* strategy.rs: let trade_size = Decimal::new(10, 0) (whole units)
trade_size == 10

\* Width of run_ws_loop's backoff, a u64 (it is handed to Duration::from_secs)
U64Bits == 64

\* market.rs: std::cmp::min(backoff, 60)
MaxWaitSecs == 60

\* --------------------------------------------------------------- bounds

\* Direct calls of the RiskManager API explored by SpecRisk.
MaxRiskCalls == 5

\* PnL deltas handed to record_pnl by SpecRisk (hundredths): two losses of
\* 10.00 reach the limit -20.00 exactly, a further -0.01 breaches it, and
\* +10.00 brings daily_pnl back above the limit.
PnlDeltas == {-1000, -1, 1000}

\* Amounts handed to check_trade_size by SpecRisk: zero, the capital limit of
\* the initial balance (10.00) and one hundredth above it.
CheckAmounts == {0, 1000, 1001}

\* execute_arb calls explored by SpecExec.
MaxCalls == 2

\* (price_yes, price_no) pairs handed to execute_arb: 0.40 + 0.55 leaves an edge
\* of 0.05, 0.50 + 0.52 costs more than the payout.
PricePairs == {<<40, 55>>, <<50, 52>>}

\* Trade sizes handed to execute_arb, in whole units: at 0.50 + 0.52 a size of
\* 10 costs 10.20, above the capital limit 10.00, and a size of 5 costs 5.10.
Sizes == {5, 10}

\* Feed messages handled by SpecMarket.
MaxMsgs == 5

\* Largest reading of the clock.
MaxClock == 1

\* Feed messages handled by SpecStrategy.
MaxFeed == 5

\* Book messages of SpecStrategy, all of market m1 (price in hundredths, size
\* in units).  The NO token is quoted at 0.55 with size 50; the YES token at
\* 0.55 (0.55 + 0.55 is above the normalization threshold), at 0.40 with size
\* 50 (0.40 + 0.55 leaves exactly min_edge), or at 0.39 with size 49 before a
\* deeper level at 0.55 (an edge of 0.06 behind too little size).
StrategyFeed ==
    [kind : {"book"}, asset_id : {"n1"}, bids : {<<>>},
     asks : { << [ok |-> TRUE, price |-> 55, size |-> 50] >> }]
    \cup [kind : {"book"}, asset_id : {"y1"}, bids : {<<>>},
          asks : { << [ok |-> TRUE, price |-> 55, size |-> 50] >>,
                   << [ok |-> TRUE, price |-> 40, size |-> 50] >>,
                   << [ok |-> TRUE, price |-> 39, size |-> 49],
                      [ok |-> TRUE, price |-> 55, size |-> 100] >> }]

\* Feed messages handled by SpecReentry, and the notifications it lets wait in
\* the channel when a further message is read.
MaxReentryFeed == 9
MaxBacklog == 1

\* Feed messages handled by SpecChannel: enough to overwrite a slot of the
\* channel that the receiver has not taken.
MaxSends == 130

\* The book message of SpecChannel; with the NO token never quoted the
\* strategy returns at the liquidity gate.
ChannelFeed ==
    [kind : {"book"}, asset_id : {"y1"}, bids : {<<>>},
     asks : { << [ok |-> TRUE, price |-> 55, size |-> 50] >> }]

\* What a place_order call meets in SpecStrategy.
StrategyOutcomes == {"ok_id", "http_err"}

\* Feed payloads of every kind explored with a receiver subscribed.
MaxIngest == 4

\* Feed messages handled by SpecLocks, and the book message that can be its
\* i-th: the NO token quoted at 0.55, then the YES token at 0.55 three times
\* (which latches is_normalized), then the YES token at 0.40 or at 0.55.
MaxLockFeed == 7
LockFeed(i) ==
    IF i = 1
    THEN [kind : {"book"}, asset_id : {"n1"}, bids : {<<>>},
          asks : { << [ok |-> TRUE, price |-> 55, size |-> 50] >> }]
    ELSE [kind : {"book"}, asset_id : {"y1"}, bids : {<<>>},
          asks : IF i <= 4
                 THEN { << [ok |-> TRUE, price |-> 55, size |-> 50] >> }
                 ELSE { << [ok |-> TRUE, price |-> 55, size |-> 50] >>,
                        << [ok |-> TRUE, price |-> 40, size |-> 50] >> }]

\* Consecutive failed connection attempts explored: enough for the doubling of
\* backoff to pass the width of a u64.
MaxFailures == 66

\* Ask sides carried by book messages (price in hundredths, size in units): one
\* with an unparsable level and its best ask 0.44 not in first place, one with
\* the single ask 0.55, and an empty one.  0.44 + 0.44 is below the
\* normalization threshold, 0.44 + 0.55 is the threshold, 0.55 + 0.55 is above.
AskSnapshots ==
    { << [ok |-> FALSE, price |-> 0, size |-> 0], [ok |-> TRUE, price |-> 55, size |-> 100],
         [ok |-> TRUE, price |-> 44, size |-> 50] >>,
      << [ok |-> TRUE, price |-> 55, size |-> 50] >>,
      << >> }

\* Bid sides carried by book messages.
BidSnapshots == { << [ok |-> TRUE, price |-> 30, size |-> 10] >> }

\* Asset ids of book messages: both tokens of market m1, the YES token of
\* market m2 (which therefore never has both legs quoted) and an unknown token.
AssetIds == {"y1", "n1", "y2", "zz"}

\* The feed's messages: the "[]" heartbeat, an unparsable text, a message of
\* another event type, and book snapshots.
FeedMessages ==
    [kind : {"heartbeat", "malformed", "unknown"}, asset_id : {""}, bids : {<<>>}, asks : {<<>>}]
    \cup [kind : {"book"}, asset_id : AssetIds, bids : BidSnapshots, asks : AskSnapshots]

\* The two tasks: the one spawned for run_ws_loop, and main, which runs the
\* strategy loop
Tasks == {"feed", "strategy"}

\* ------------------------------------------------------------ variables

VARIABLES
    current_balance,    \* RiskState.current_balance
    daily_pnl,          \* RiskState.daily_pnl
    safe_mode,          \* RiskState.safe_mode
    pnl_calls,          \* number of record_pnl calls made so far
    risk_call,          \* the last direct RiskManager call: [op, arg, ret]
    n_risk_calls,       \* number of direct RiskManager calls made
    pc,                 \* position of the (single, sequential) execute_arb caller
    call,               \* arguments of the execute_arb call in progress / last made
    entry,              \* RiskState and order count observed when that call was entered
    res_yes,            \* execute_arb's local res_yes: NoRes, Pending or a Result
    res_no,             \* execute_arb's local res_no
    outcome_yes,        \* what the YES leg's submission met ("none" before it completes)
    outcome_no,         \* what the NO leg's submission met
    status,             \* TradeStatus returned by the last execute_arb ("none" before any)
    history,            \* the TradeStatus values returned so far, in order
    orders,             \* every OrderRequest handed to place_order, in submission order
    order_books,        \* MarketMonitor.order_books: token_id -> OrderBook (or NoBook)
    market_state,       \* Market.state of each entry of MarketMonitor.active_markets
    ws_pc,              \* position of the feed task inside handle_message
    ws_mid,             \* handle_message's local mid, the market of the update in hand
    subscribed,         \* whether the strategy holds a receiver of update_tx
    chan,               \* market ids sent on update_tx and not yet received
    lagged,             \* notifications the receiver lost to the channel's capacity
    clock,              \* Utc::now()
    hist,               \* per market: for each update applied since the last reset,
                        \* whether best_ask_yes + best_ask_no >= normalization_threshold
    n_msgs,             \* number of feed messages handled
    last_snapshot,      \* per token: the bids and asks, as received, of the last book
                        \* message stored for it
    n_sent,             \* values sent on update_tx while a receiver existed
    st_pc,              \* position of the strategy task in run / process_market_update
    st_mid,             \* process_market_update's market_id
    st_first,           \* its first reading of the best asks (price_yes, price_no)
    rx_next,            \* sequence number of the next value the receiver expects
    last_recv,          \* what rx.recv() returned last
    st_exit,            \* where the last process_market_update returned ("none" while
                        \* one is in progress)
    conn_pc,            \* position of the feed task in run_ws_loop's reconnect loop
    backoff,            \* run_ws_loop's local backoff (u64)
    wait_secs,          \* run_ws_loop's last wait_secs (-1 before the first wait)
    n_fail,             \* consecutive failed connection attempts
    ever_connected,     \* whether a connection has been established and has ended
    held,               \* per task: the lock guards it holds
    passed              \* per task: critical sections of its current step it has left

risk_vars == <<current_balance, daily_pnl, safe_mode, pnl_calls>>
riskapi_vars == <<risk_call, n_risk_calls>>
exec_vars == <<pc, call, entry, res_yes, res_no, outcome_yes, outcome_no, status, history, orders>>
market_vars == <<order_books, market_state, ws_pc, ws_mid, subscribed, chan, lagged,
                 clock, hist, n_msgs, last_snapshot, n_sent>>
strategy_vars == <<st_pc, st_mid, st_first, rx_next, last_recv, st_exit>>
conn_vars == <<conn_pc, backoff, wait_secs, n_fail, ever_connected>>
lock_vars == <<held, passed>>
vars == <<risk_vars, riskapi_vars, exec_vars, market_vars, strategy_vars, conn_vars, lock_vars>>

\* ---------------------------------------------------------- RiskManager

\* RiskManager::new
RiskInit ==
    /\ current_balance = initial_balance
    /\ daily_pnl = 0
    /\ safe_mode = FALSE
    /\ pnl_calls = 0

\* initial_balance * max_daily_loss_pct, four decimal places
loss_limit == initial_balance * max_daily_loss_pct

\* check_trade_size without its safe-mode test
check_trade_size_ignoring_safe_mode(required_amount) ==
    IF required_amount * Scale > current_balance * max_trade_capital_pct THEN FALSE
    ELSE IF daily_pnl * Scale < -loss_limit THEN FALSE
    ELSE TRUE

\* RiskManager::check_trade_size, the value it returns in the current state
check_trade_size(required_amount) ==
    IF safe_mode THEN FALSE
    ELSE IF required_amount * Scale > current_balance * max_trade_capital_pct THEN FALSE
    ELSE IF daily_pnl * Scale < -loss_limit THEN FALSE
    ELSE TRUE

\* record_pnl with safe_mode following the loss test instead of latching
record_pnl_unlatching(pnl) ==
    /\ daily_pnl' = daily_pnl + pnl
    /\ current_balance' = current_balance + pnl
    /\ safe_mode' = ((daily_pnl + pnl) * Scale < -loss_limit)
    /\ pnl_calls' = pnl_calls + 1

\* record_pnl testing the loss limit before it adds the delta
record_pnl_stale_test(pnl) ==
    /\ daily_pnl' = daily_pnl + pnl
    /\ current_balance' = current_balance + pnl
    /\ safe_mode' = IF daily_pnl * Scale < -loss_limit THEN TRUE ELSE safe_mode
    /\ pnl_calls' = pnl_calls + 1

\* record_pnl that books the delta to daily_pnl only
record_pnl_daily_only(pnl) ==
    /\ daily_pnl' = daily_pnl + pnl
    /\ current_balance' = current_balance
    /\ safe_mode' = IF (daily_pnl + pnl) * Scale < -loss_limit THEN TRUE ELSE safe_mode
    /\ pnl_calls' = pnl_calls + 1

\* RiskManager::record_pnl
record_pnl(pnl) ==
    /\ daily_pnl' = daily_pnl + pnl
    /\ current_balance' = current_balance + pnl
    /\ safe_mode' = IF (daily_pnl + pnl) * Scale < -loss_limit THEN TRUE ELSE safe_mode
    /\ pnl_calls' = pnl_calls + 1

\* enter_safe_mode that only logs
enter_safe_mode_noop ==
    UNCHANGED <<current_balance, daily_pnl, safe_mode, pnl_calls>>

\* RiskManager::enter_safe_mode
enter_safe_mode ==
    /\ safe_mode' = TRUE
    /\ UNCHANGED <<current_balance, daily_pnl, pnl_calls>>

\* RiskManager::is_safe_mode
is_safe_mode == safe_mode

\* ----- the RiskManager API called directly, in any order (SpecRisk)

CallCheckTradeSize(amount) ==
    /\ n_risk_calls < MaxRiskCalls
    /\ risk_call' = [op |-> "check_trade_size", arg |-> amount, ret |-> check_trade_size(amount)]
    /\ n_risk_calls' = n_risk_calls + 1
    /\ UNCHANGED <<risk_vars, exec_vars, market_vars, strategy_vars, conn_vars>>

CallRecordPnl(pnl) ==
    /\ n_risk_calls < MaxRiskCalls
    /\ record_pnl(pnl)
    /\ risk_call' = [op |-> "record_pnl", arg |-> pnl, ret |-> FALSE]
    /\ n_risk_calls' = n_risk_calls + 1
    /\ UNCHANGED <<exec_vars, market_vars, strategy_vars, conn_vars>>

CallEnterSafeMode ==
    /\ n_risk_calls < MaxRiskCalls
    /\ enter_safe_mode
    /\ risk_call' = [op |-> "enter_safe_mode", arg |-> 0, ret |-> FALSE]
    /\ n_risk_calls' = n_risk_calls + 1
    /\ UNCHANGED <<exec_vars, market_vars, strategy_vars, conn_vars>>

CallIsSafeMode ==
    /\ n_risk_calls < MaxRiskCalls
    /\ risk_call' = [op |-> "is_safe_mode", arg |-> 0, ret |-> is_safe_mode]
    /\ n_risk_calls' = n_risk_calls + 1
    /\ UNCHANGED <<risk_vars, exec_vars, market_vars, strategy_vars, conn_vars>>

\* ------------------------------------------------------ ExecutionEngine

\* Markets and their two tokens (tokens[0] is the YES leg, tokens[1] the NO leg).
Markets == {"m1", "m2"}
yes_token_of(m) == IF m = "m1" THEN "y1" ELSE "y2"
no_token_of(m) == IF m = "m1" THEN "n1" ELSE "n2"

\* What one place_order call can meet: the signer fails, the transport fails,
\* the venue answers with a non-success status, with a success status and an
\* "id" string, or with a success status and no "id" string.
Outcomes == {"sign_err", "net_err", "http_err", "ok_id", "ok_noid"}

\* ExecutionEngine::place_order, its Result for each outcome
place_order(outcome) ==
    CASE outcome = "sign_err" -> [st |-> "done", ok |-> FALSE, val |-> "signing error"]
      [] outcome = "net_err"  -> [st |-> "done", ok |-> FALSE, val |-> "Network Error"]
      [] outcome = "http_err" -> [st |-> "done", ok |-> FALSE, val |-> "HTTP Error"]
      [] outcome = "ok_id"    -> [st |-> "done", ok |-> TRUE,  val |-> "venue-id"]
      [] outcome = "ok_noid"  -> [st |-> "done", ok |-> TRUE,  val |-> "unknown"]

\* res.as_ref().ok(): Some(id) for Ok(id), None for Err
result_ok(res) == IF res.ok THEN [some |-> TRUE, id |-> res.val] ELSE [some |-> FALSE, id |-> ""]

\* ExecutionEngine::verify_fill
verify_fill(order_id) == IF order_id.some THEN TRUE ELSE FALSE

\* ExecutionEngine::create_order_payload (the nonce, a wall-clock reading, is left out)
create_order_payload(market_id, token_id, side, price, size) ==
    [market_id |-> market_id, token_id |-> token_id, side |-> side,
     price |-> price, size |-> size, order_type |-> "FOK"]

\* (price_yes + price_no) * size
total_cost(price_yes, price_no, size) == (price_yes + price_no) * size

\* the profit with the inner parentheses lost
profit_of_misparenthesised(price_yes, price_no, size) == (Scale - price_yes + price_no) * size

\* (Decimal::ONE - (price_yes + price_no)) * size
profit_of(price_yes, price_no, size) == (Scale - (price_yes + price_no)) * size

\* A leg's future: not created, created and not yet complete, or complete
\* (then it is place_order's Result).
NoRes == [st |-> "none", ok |-> FALSE, val |-> ""]
Pending == [st |-> "pending", ok |-> FALSE, val |-> ""]
Done(res) == res.st = "done"
filled_yes == Done(res_yes) /\ verify_fill(result_ok(res_yes))
filled_no == Done(res_no) /\ verify_fill(result_ok(res_no))

Return(st) ==
    /\ status' = st
    /\ history' = Append(history, st)
    /\ pc' = "idle"

\* execute_arb without the risk gate
execute_arb_ungated(market_id, price_yes, price_no, size) ==
    /\ pc = "idle"
    /\ Len(history) < MaxCalls
    /\ call' = [market_id |-> market_id, yes_token |-> yes_token_of(market_id),
                no_token |-> no_token_of(market_id), price_yes |-> price_yes,
                price_no |-> price_no, size |-> size]
    /\ entry' = [current_balance |-> current_balance, daily_pnl |-> daily_pnl,
                 safe_mode |-> safe_mode, pnl_calls |-> pnl_calls, n_orders |-> Len(orders)]
    /\ pc' = "join"
    /\ res_yes' = Pending
    /\ res_no' = Pending
    /\ outcome_yes' = "none"
    /\ outcome_no' = "none"
    /\ UNCHANGED <<risk_vars, riskapi_vars, market_vars, conn_vars, status, history, orders>>

\* execute_arb from its entry to the join of the two place_order futures, or to
\* its early return when the risk check refuses the trade.
execute_arb(market_id, price_yes, price_no, size) ==
    /\ pc = "idle"
    /\ Len(history) < MaxCalls
    /\ call' = [market_id |-> market_id, yes_token |-> yes_token_of(market_id),
                no_token |-> no_token_of(market_id), price_yes |-> price_yes,
                price_no |-> price_no, size |-> size]
    /\ entry' = [current_balance |-> current_balance, daily_pnl |-> daily_pnl,
                 safe_mode |-> safe_mode, pnl_calls |-> pnl_calls, n_orders |-> Len(orders)]
    /\ IF ~check_trade_size(total_cost(price_yes, price_no, size))
       THEN /\ Return("Failed")
            /\ res_yes' = NoRes
            /\ res_no' = NoRes
       ELSE /\ pc' = "join"
            /\ res_yes' = Pending
            /\ res_no' = Pending
            /\ UNCHANGED <<status, history>>
    /\ outcome_yes' = "none"
    /\ outcome_no' = "none"
    /\ UNCHANGED <<risk_vars, riskapi_vars, market_vars, conn_vars, orders>>

\* One of the two joined futures: place_order(&order_yes)
PlaceYes(outcome) ==
    /\ pc = "join"
    /\ res_yes = Pending
    /\ orders' = Append(orders, create_order_payload(call.market_id, call.yes_token,
                                                     "Buy", call.price_yes, call.size))
    /\ res_yes' = place_order(outcome)
    /\ outcome_yes' = outcome
    /\ UNCHANGED <<risk_vars, riskapi_vars, market_vars, strategy_vars, conn_vars, pc, call, entry, res_no, outcome_no, status, history>>

\* The other joined future: place_order(&order_no)
PlaceNo(outcome) ==
    /\ pc = "join"
    /\ res_no = Pending
    /\ orders' = Append(orders, create_order_payload(call.market_id, call.no_token,
                                                     "Buy", call.price_no, call.size))
    /\ res_no' = place_order(outcome)
    /\ outcome_no' = outcome
    /\ UNCHANGED <<risk_vars, riskapi_vars, market_vars, strategy_vars, conn_vars, pc, call, entry, res_yes, outcome_yes, status, history>>

\* execute_arb after the join: both legs filled
ClassifyFilled ==
    /\ pc = "join" /\ Done(res_yes) /\ Done(res_no)
    /\ filled_yes /\ filled_no
    /\ record_pnl(profit_of(call.price_yes, call.price_no, call.size))
    /\ Return("Filled")
    /\ UNCHANGED <<riskapi_vars, market_vars, strategy_vars, conn_vars, call, entry, res_yes, res_no, outcome_yes, outcome_no, orders>>

\* the neither-filled case falling through to the emergency branch
ClassifyCancelled_as_emergency ==
    /\ pc = "join" /\ Done(res_yes) /\ Done(res_no)
    /\ ~filled_yes /\ ~filled_no
    /\ enter_safe_mode
    /\ pc' = "dump"
    /\ UNCHANGED <<riskapi_vars, market_vars, strategy_vars, conn_vars, call, entry, res_yes, res_no, outcome_yes,
                   outcome_no, status, history, orders>>

\* execute_arb after the join: neither leg filled
ClassifyCancelled ==
    /\ pc = "join" /\ Done(res_yes) /\ Done(res_no)
    /\ ~filled_yes /\ ~filled_no
    /\ Return("Cancelled")
    /\ UNCHANGED <<risk_vars, riskapi_vars, market_vars, strategy_vars, conn_vars, call, entry, res_yes, res_no, outcome_yes, outcome_no, orders>>

\* the emergency branch booking the filled leg's cost through record_pnl
ClassifyPartial_booking_loss ==
    /\ pc = "join" /\ Done(res_yes) /\ Done(res_no)
    /\ ~(filled_yes /\ filled_no) /\ ~(~filled_yes /\ ~filled_no)
    /\ LET cost == (IF filled_yes THEN call.price_yes ELSE call.price_no) * call.size
       IN /\ daily_pnl' = daily_pnl - cost
          /\ current_balance' = current_balance - cost
    /\ pnl_calls' = pnl_calls + 1
    /\ safe_mode' = TRUE
    /\ pc' = "dump"
    /\ UNCHANGED <<riskapi_vars, market_vars, strategy_vars, conn_vars, call, entry, res_yes, res_no, outcome_yes, outcome_no, status, history, orders>>

\* execute_arb after the join: exactly one leg filled; handle_emergency runs up
\* to the await of its place_order
ClassifyPartial ==
    /\ pc = "join" /\ Done(res_yes) /\ Done(res_no)
    /\ ~(filled_yes /\ filled_no) /\ ~(~filled_yes /\ ~filled_no)
    /\ enter_safe_mode
    /\ pc' = "dump"
    /\ UNCHANGED <<riskapi_vars, market_vars, strategy_vars, conn_vars, call, entry, res_yes, res_no, outcome_yes, outcome_no, status, history, orders>>

\* the SELL placed on the leg that did not fill
token_to_dump_swapped == IF filled_yes THEN call.no_token ELSE call.yes_token

\* handle_emergency: the token whose exposure is sold
token_to_dump == IF filled_yes THEN call.yes_token ELSE call.no_token

\* handle_emergency returning as soon as the SELL has been answered
handle_emergency_unpaused(outcome) ==
    /\ pc = "dump"
    /\ outcome \in Outcomes
    /\ orders' = Append(orders, create_order_payload(call.market_id, token_to_dump,
                                                     "Sell", 0, call.size))
    /\ Return("PartialFillEmergency")
    /\ UNCHANGED <<risk_vars, riskapi_vars, market_vars, strategy_vars, conn_vars, call, entry, res_yes, res_no, outcome_yes, outcome_no>>

\* handle_emergency: the compensating SELL, whose result is discarded
handle_emergency(outcome) ==
    /\ pc = "dump"
    /\ outcome \in Outcomes
    /\ orders' = Append(orders, create_order_payload(call.market_id, token_to_dump,
                                                     "Sell", 0, call.size))
    /\ pc' = "sleep"
    /\ UNCHANGED <<risk_vars, riskapi_vars, market_vars, strategy_vars, conn_vars, call, entry, res_yes, res_no, outcome_yes, outcome_no, status, history>>

\* handle_emergency: the 60 s sleep ends and execute_arb returns
EmergencyWake ==
    /\ pc = "sleep"
    /\ Return("PartialFillEmergency")
    /\ UNCHANGED <<risk_vars, riskapi_vars, market_vars, strategy_vars, conn_vars, call, entry, res_yes, res_no, outcome_yes, outcome_no, orders>>

\* -------------------------------------------------------- MarketMonitor

Tokens == {"y1", "n1", "y2", "n2"}

\* MarketMonitor.token_to_market, built by add_market; "" stands for no entry
token_to_market(token_id) ==
    IF token_id \in {"y1", "n1"} THEN "m1"
    ELSE IF token_id \in {"y2", "n2"} THEN "m2"
    ELSE ""

\* MarketMonitor::get_market_tokens: Some((tokens[0], tokens[1])) for a known market
get_market_tokens(market_id) ==
    IF market_id \in Markets
    THEN [some |-> TRUE, yes |-> yes_token_of(market_id), no |-> no_token_of(market_id)]
    ELSE [some |-> FALSE, yes |-> "", no |-> ""]

\* A WsLevel whose two strings parse as decimals, and one whose strings do not
Lv(price, size) == [ok |-> TRUE, price |-> price, size |-> size]
BadLevel == [ok |-> FALSE, price |-> 0, size |-> 0]

\* WsLevel::to_level under filter_map: the levels that parse, in order
RECURSIVE to_levels(_)
to_levels(ws_levels) ==
    IF ws_levels = <<>> THEN <<>>
    ELSE LET rest == to_levels(Tail(ws_levels))
             l == Head(ws_levels)
         IN IF l.ok THEN <<[price |-> l.price, size |-> l.size]>> \o rest ELSE rest

NoBook == [present |-> FALSE, bids |-> <<>>, asks |-> <<>>]

\* the best ask taken to be the first stored level, as if the side were sorted
best_ask_first(asks) == asks[1]

\* Iterator::min_by on price: the first level of minimal price (asks non-empty)
best_ask(asks) ==
    LET i == CHOOSE k \in 1..Len(asks) :
                 /\ \A j \in 1..Len(asks) : asks[k].price <= asks[j].price
                 /\ \A j \in 1..(k - 1) : asks[j].price > asks[k].price
    IN asks[i]

\* MarketMonitor::get_best_asks
get_best_asks(token_yes, token_no) ==
    IF /\ token_yes \in Tokens /\ token_no \in Tokens
       /\ order_books[token_yes].present /\ order_books[token_no].present
       /\ order_books[token_yes].asks # <<>> /\ order_books[token_no].asks # <<>>
    THEN [some |-> TRUE, yes |-> best_ask(order_books[token_yes].asks).price,
          no |-> best_ask(order_books[token_no].asks).price]
    ELSE [some |-> FALSE, yes |-> 0, no |-> 0]

\* MarketState::default()
DefaultMarketState ==
    [last_trade_time |-> -1, is_normalized |-> FALSE,
     consecutive_normalized_updates |-> 0, last_edge |-> 0]

\* update_normalization_state latching one update late (> for >=)
update_normalization_state_late(state, sum) ==
    LET is_normalized == sum >= normalization_threshold
        count == IF is_normalized THEN state.consecutive_normalized_updates + 1 ELSE 0
    IN [state EXCEPT
           !.consecutive_normalized_updates = count,
           !.is_normalized = IF is_normalized /\ count > normalization_updates
                             THEN TRUE ELSE state.is_normalized,
           !.last_edge = Scale - sum]

\* update_normalization_state clearing the flag on a reading below the threshold
update_normalization_state_unlatching(state, sum) ==
    LET is_normalized == sum >= normalization_threshold
        count == IF is_normalized THEN state.consecutive_normalized_updates + 1 ELSE 0
    IN [state EXCEPT
           !.consecutive_normalized_updates = count,
           !.is_normalized = is_normalized /\
                             (state.is_normalized \/ count >= normalization_updates),
           !.last_edge = Scale - sum]

\* MarketMonitor::update_normalization_state, the new MarketState of a market
\* whose two best asks sum to `sum`
update_normalization_state(state, sum) ==
    LET is_normalized == sum >= normalization_threshold
        count == IF is_normalized THEN state.consecutive_normalized_updates + 1 ELSE 0
    IN [state EXCEPT
           !.consecutive_normalized_updates = count,
           !.is_normalized = IF is_normalized /\ count >= normalization_updates
                             THEN TRUE ELSE state.is_normalized,
           !.last_edge = Scale - sum]

\* handle_message appending the update's levels to the stored ones
handle_message_merging(msg) ==
    /\ ws_pc = "read"
    /\ n_msgs' = n_msgs + 1
    /\ IF msg.kind = "book" /\ token_to_market(msg.asset_id) # ""
       THEN /\ order_books' = [order_books EXCEPT ![msg.asset_id] =
                                  [present |-> TRUE, bids |-> @.bids \o to_levels(msg.bids),
                                   asks |-> @.asks \o to_levels(msg.asks)]]
            /\ last_snapshot' = [last_snapshot EXCEPT ![msg.asset_id] =
                                    [seen |-> TRUE, bids |-> msg.bids, asks |-> msg.asks]]
            /\ ws_mid' = token_to_market(msg.asset_id)
            /\ ws_pc' = "norm"
       ELSE UNCHANGED <<order_books, last_snapshot, ws_mid, ws_pc>>
    /\ UNCHANGED <<risk_vars, riskapi_vars, exec_vars, strategy_vars, conn_vars, market_state,
                   subscribed, chan, lagged, clock, hist, n_sent>>

\* handle_message going on to normalise and notify for a token that has no market
handle_message_unfiltered(msg) ==
    /\ ws_pc = "read"
    /\ n_msgs' = n_msgs + 1
    /\ IF msg.kind = "book"
       THEN /\ IF msg.asset_id \in Tokens
               THEN /\ order_books' = [order_books EXCEPT ![msg.asset_id] =
                                          [present |-> TRUE, bids |-> to_levels(msg.bids),
                                           asks |-> to_levels(msg.asks)]]
                    /\ last_snapshot' = [last_snapshot EXCEPT ![msg.asset_id] =
                                            [seen |-> TRUE, bids |-> msg.bids, asks |-> msg.asks]]
               ELSE UNCHANGED <<order_books, last_snapshot>>
            /\ ws_mid' = token_to_market(msg.asset_id)
            /\ ws_pc' = "norm"
       ELSE UNCHANGED <<order_books, last_snapshot, ws_mid, ws_pc>>
    /\ UNCHANGED <<risk_vars, riskapi_vars, exec_vars, strategy_vars, conn_vars, market_state,
                   subscribed, chan, lagged, clock, hist, n_sent>>

\* MarketMonitor::handle_message up to the insertion of the book: a heartbeat,
\* an unparsable text, a message of another event type and a book of an
\* unknown token are dropped.
handle_message(msg) ==
    /\ ws_pc = "read"
    /\ n_msgs' = n_msgs + 1
    /\ IF msg.kind = "book" /\ token_to_market(msg.asset_id) # ""
       THEN /\ order_books' = [order_books EXCEPT ![msg.asset_id] =
                                  [present |-> TRUE, bids |-> to_levels(msg.bids),
                                   asks |-> to_levels(msg.asks)]]
            /\ last_snapshot' = [last_snapshot EXCEPT ![msg.asset_id] =
                                    [seen |-> TRUE, bids |-> msg.bids, asks |-> msg.asks]]
            /\ ws_mid' = token_to_market(msg.asset_id)
            /\ ws_pc' = "norm"
       ELSE UNCHANGED <<order_books, last_snapshot, ws_mid, ws_pc>>
    /\ UNCHANGED <<risk_vars, riskapi_vars, exec_vars, strategy_vars, conn_vars, market_state,
                   subscribed, chan, lagged, clock, hist, n_sent>>

\* handle_message going from the insertion straight to the send
NormalizationStep_skipped ==
    /\ ws_pc = "norm"
    /\ ws_pc' = "send"
    /\ UNCHANGED <<risk_vars, riskapi_vars, exec_vars, strategy_vars, conn_vars, order_books,
                   market_state, hist, ws_mid, subscribed, chan, lagged, clock, n_msgs,
                   last_snapshot, n_sent>>

\* handle_message: self.update_normalization_state(&mid)
NormalizationStep ==
    /\ ws_pc = "norm"
    /\ LET t == get_market_tokens(ws_mid)
           asks == get_best_asks(t.yes, t.no)
       IN IF t.some /\ asks.some
          THEN /\ market_state' = [market_state EXCEPT ![ws_mid] =
                                      update_normalization_state(@, asks.yes + asks.no)]
               /\ hist' = [hist EXCEPT ![ws_mid] =
                              Append(@, asks.yes + asks.no >= normalization_threshold)]
          ELSE UNCHANGED <<market_state, hist>>
    /\ ws_pc' = "send"
    /\ UNCHANGED <<risk_vars, riskapi_vars, exec_vars, strategy_vars, conn_vars, order_books,
                   ws_mid, subscribed, chan, lagged, clock, n_msgs, last_snapshot, n_sent>>

\* a send that waits for a free slot
Notify_blocking ==
    /\ ws_pc = "send"
    /\ IF ~subscribed THEN UNCHANGED <<chan, lagged, n_sent>>
       ELSE /\ Len(chan) < BufferLen
            /\ n_sent' = n_sent + 1
            /\ chan' = Append(chan, [mid |-> ws_mid, seq |-> n_sent + 1])
            /\ UNCHANGED lagged
    /\ ws_pc' = "read"
    /\ UNCHANGED <<risk_vars, riskapi_vars, exec_vars, strategy_vars, conn_vars, order_books,
                   market_state, ws_mid, subscribed, clock, hist, n_msgs, last_snapshot>>

\* handle_message: let _ = self.update_tx.send(mid).  A broadcast send with no
\* receiver stores nothing (its Err is discarded); with every slot holding a
\* value the receiver has not taken, the oldest is overwritten and the receiver
\* is behind by one more.  Each value is tagged with its position in the
\* stream of values sent.
Notify ==
    /\ ws_pc = "send"
    /\ IF ~subscribed THEN UNCHANGED <<chan, lagged, n_sent>>
       ELSE /\ n_sent' = n_sent + 1
            /\ IF Len(chan) < BufferLen
               THEN /\ chan' = Append(chan, [mid |-> ws_mid, seq |-> n_sent + 1])
                    /\ UNCHANGED lagged
               ELSE /\ chan' = Append(Tail(chan), [mid |-> ws_mid, seq |-> n_sent + 1])
                    /\ lagged' = lagged + 1
    /\ ws_pc' = "read"
    /\ UNCHANGED <<risk_vars, riskapi_vars, exec_vars, strategy_vars, conn_vars, order_books,
                   market_state, ws_mid, subscribed, clock, hist, n_msgs, last_snapshot>>

\* MarketMonitor::mark_trade_executed
mark_trade_executed(market_id) ==
    /\ market_id \in Markets
    /\ market_state' = [market_state EXCEPT ![market_id] =
                           [@ EXCEPT !.is_normalized = FALSE,
                                     !.consecutive_normalized_updates = 0,
                                     !.last_trade_time = clock]]
    /\ hist' = [hist EXCEPT ![market_id] = <<>>]
    /\ UNCHANGED <<risk_vars, riskapi_vars, exec_vars, conn_vars, order_books, ws_pc, ws_mid,
                   subscribed, chan, lagged, clock, n_msgs, last_snapshot, n_sent>>

\* Time passes
Tick ==
    /\ clock < MaxClock
    /\ clock' = clock + 1
    /\ UNCHANGED <<risk_vars, riskapi_vars, exec_vars, strategy_vars, conn_vars, order_books,
                   market_state, ws_pc, ws_mid, subscribed, chan, lagged, hist, n_msgs,
                   last_snapshot, n_sent>>

\* ------------------------------------------------------- StrategyEngine

\* The sizes of a side's levels added up
RECURSIVE total_size(_)
total_size(levels) ==
    IF levels = <<>> THEN 0 ELSE Head(levels).size + total_size(Tail(levels))

\* check_liquidity counting the depth of every ask level
check_liquidity_total_depth(token_yes, token_no, required_size) ==
    LET check_token(token_id) ==
            /\ token_id \in Tokens
            /\ order_books[token_id].present
            /\ order_books[token_id].asks # <<>>
            /\ total_size(order_books[token_id].asks) >= required_size
    IN check_token(token_yes) /\ check_token(token_no)

\* MarketMonitor::check_liquidity
check_liquidity(token_yes, token_no, required_size) ==
    LET check_token(token_id) ==
            /\ token_id \in Tokens
            /\ order_books[token_id].present
            /\ order_books[token_id].asks # <<>>
            /\ best_ask(order_books[token_id].asks).size >= required_size
    IN check_token(token_yes) /\ check_token(token_no)

\* check_opportunity refusing an edge equal to min_edge (> for >=)
check_opportunity_strict(price_yes, price_no) ==
    LET fee_multiplier == Scale + TAKER_FEE
        total == price_yes * fee_multiplier + price_no * fee_multiplier
        edge == Scale * Scale - total
    IN IF edge > min_edge * Scale THEN TRUE ELSE FALSE

\* StrategyEngine::check_opportunity; prices in hundredths, the products and
\* the edge carry four decimal places
check_opportunity(price_yes, price_no) ==
    LET fee_multiplier == Scale + TAKER_FEE
        cost_yes == price_yes * fee_multiplier
        cost_no == price_no * fee_multiplier
        total == cost_yes + cost_no
        edge == Scale * Scale - total
    IN IF edge >= min_edge * Scale THEN TRUE ELSE FALSE

\* Milliseconds in one unit of the clock
MsPerTick == trade_cooldown_ms

\* now.signed_duration_since(last_trade).num_milliseconds()
elapsed_ms(last_trade) == (clock - last_trade) * MsPerTick

\* StrategyEngine::run: let mut rx = self.market_monitor.update_tx.subscribe()
Subscribe ==
    /\ st_pc = "start"
    /\ subscribed' = TRUE
    /\ rx_next' = n_sent + 1
    /\ st_pc' = "recv"
    /\ UNCHANGED <<risk_vars, riskapi_vars, exec_vars, conn_vars, order_books, market_state,
                   ws_pc, ws_mid, chan, lagged, clock, hist, n_msgs, last_snapshot, n_sent,
                   st_mid, st_first, last_recv, st_exit>>

\* StrategyEngine::run: rx.recv().await completes.  A receiver whose next value
\* was overwritten gets Err(Lagged(n)) and is moved to the oldest value
\* retained; otherwise it gets the next value.  With nothing to receive the
\* await does not complete.  Err(Closed) needs every Sender dropped, and the
\* Sender lives in the MarketMonitor the StrategyEngine itself holds.
\* last_recv.n is the count of the Lagged returned, or of the Lagged that the
\* value returned came straight after.
Recv ==
    /\ st_pc = "recv"
    /\ IF lagged > 0
       THEN /\ last_recv' = [kind |-> "lagged", n |-> lagged, seq |-> 0]
            /\ rx_next' = rx_next + lagged
            /\ lagged' = 0
            /\ UNCHANGED <<chan, st_pc, st_mid, st_exit>>
       ELSE /\ chan # <<>>
            /\ last_recv' = [kind |-> "ok",
                             n |-> IF last_recv.kind = "lagged" THEN last_recv.n ELSE 0,
                             seq |-> Head(chan).seq]
            /\ rx_next' = rx_next + 1
            /\ chan' = Tail(chan)
            /\ st_mid' = Head(chan).mid
            /\ st_pc' = "liq"
            /\ st_exit' = "none"
            /\ UNCHANGED lagged
    /\ UNCHANGED <<risk_vars, riskapi_vars, exec_vars, conn_vars, order_books, market_state,
                   ws_pc, ws_mid, subscribed, clock, hist, n_msgs, last_snapshot, n_sent,
                   st_first>>

\* The strategy's own variables change as given and nothing else does
StrategyStep(next_pc, first, exit) ==
    /\ st_pc' = next_pc
    /\ st_first' = first
    /\ st_exit' = exit
    /\ UNCHANGED <<risk_vars, riskapi_vars, exec_vars, conn_vars, market_vars,
                   st_mid, rx_next, last_recv>>

\* process_market_update with the liquidity gate left out
LiquidityGate_open ==
    /\ st_pc = "liq"
    /\ IF ~get_market_tokens(st_mid).some
       THEN StrategyStep("recv", st_first, "no_market")
       ELSE StrategyStep("gate", st_first, st_exit)

\* process_market_update, steps 1 and 2: the market's tokens and the liquidity
\* gate
LiquidityGate ==
    /\ st_pc = "liq"
    /\ LET t == get_market_tokens(st_mid)
           required_liquidity == trade_size * min_liquidity_multiplier
       IN IF ~t.some
          THEN StrategyStep("recv", st_first, "no_market")
          ELSE IF ~check_liquidity(t.yes, t.no, required_liquidity)
               THEN StrategyStep("recv", st_first, "liquidity")
               ELSE StrategyStep("gate", st_first, st_exit)

\* process_market_update with the re-entry gate left out
ReentryGate_open ==
    /\ st_pc = "gate"
    /\ StrategyStep("read1", st_first, st_exit)

\* process_market_update, step 3: the normalized flag and the cooldown
ReentryGate ==
    /\ st_pc = "gate"
    /\ LET state == market_state[st_mid]
       IN IF ~state.is_normalized
          THEN StrategyStep("recv", st_first, "not_normalized")
          ELSE IF state.last_trade_time # -1 /\ elapsed_ms(state.last_trade_time) < trade_cooldown_ms
               THEN StrategyStep("recv", st_first, "cooldown")
               ELSE StrategyStep("read1", st_first, st_exit)

\* process_market_update, step 4: the first reading of the best asks
FirstRead ==
    /\ st_pc = "read1"
    /\ LET t == get_market_tokens(st_mid)
           r == get_best_asks(t.yes, t.no)
       IN IF r.some /\ check_opportunity(r.yes, r.no)
          THEN StrategyStep("read2", r, st_exit)
          ELSE StrategyStep("recv", st_first, "no_edge")

\* the dispatch made with the prices of the first reading
SecondRead_stale ==
    /\ st_pc = "read2"
    /\ execute_arb(st_mid, st_first.yes, st_first.no, trade_size)
    /\ st_pc' = "await"
    /\ UNCHANGED <<st_mid, st_first, rx_next, last_recv, st_exit>>

\* the dispatch handed to a task of its own, the loop going back to recv at once
SecondRead_detached ==
    /\ st_pc = "read2"
    /\ LET t == get_market_tokens(st_mid)
           r == get_best_asks(t.yes, t.no)
       IN IF r.some /\ check_opportunity(r.yes, r.no)
          THEN /\ execute_arb(st_mid, r.yes, r.no, trade_size)
               /\ st_pc' = "recv"
               /\ UNCHANGED <<st_mid, st_first, rx_next, last_recv, st_exit>>
          ELSE StrategyStep("recv", st_first, "preflight")

\* process_market_update, step 5: the second reading of the best asks and, when
\* the opportunity still stands, the entry into execute_arb
SecondRead ==
    /\ st_pc = "read2"
    /\ LET t == get_market_tokens(st_mid)
           r == get_best_asks(t.yes, t.no)
       IN IF r.some /\ check_opportunity(r.yes, r.no)
          THEN /\ execute_arb(st_mid, r.yes, r.no, trade_size)
               /\ st_pc' = "await"
               /\ UNCHANGED <<st_mid, st_first, rx_next, last_recv, st_exit>>
          ELSE StrategyStep("recv", st_first, "preflight")

\* the market reset after every status
AfterExec_always_reset ==
    /\ st_pc = "await"
    /\ pc = "idle"
    /\ mark_trade_executed(st_mid)
    /\ st_pc' = "recv"
    /\ st_exit' = status
    /\ UNCHANGED <<st_mid, st_first, rx_next, last_recv>>

\* the reset applied to every market
AfterExec_reset_all ==
    /\ st_pc = "await"
    /\ pc = "idle"
    /\ IF status = "Filled"
       THEN /\ market_state' = [m \in Markets |->
                                   [market_state[m] EXCEPT !.is_normalized = FALSE,
                                                           !.consecutive_normalized_updates = 0,
                                                           !.last_trade_time = clock]]
            /\ hist' = [m \in Markets |-> <<>>]
            /\ UNCHANGED <<risk_vars, riskapi_vars, exec_vars, conn_vars, order_books, ws_pc,
                           ws_mid, subscribed, chan, lagged, clock, n_msgs, last_snapshot,
                           n_sent>>
       ELSE UNCHANGED <<risk_vars, riskapi_vars, exec_vars, conn_vars, market_vars>>
    /\ st_pc' = "recv"
    /\ st_exit' = status
    /\ UNCHANGED <<st_mid, st_first, rx_next, last_recv>>

\* process_market_update after execute_arb(..).await: the match on its status
AfterExec ==
    /\ st_pc = "await"
    /\ pc = "idle"
    /\ IF status = "Filled"
       THEN mark_trade_executed(st_mid)
       ELSE UNCHANGED <<risk_vars, riskapi_vars, exec_vars, conn_vars, market_vars>>
    /\ st_pc' = "recv"
    /\ st_exit' = status
    /\ UNCHANGED <<st_mid, st_first, rx_next, last_recv>>

\* ------------------------------------------- MarketMonitor::run_ws_loop

\* backoff only ever holds 1 doubled some number of times, so the variable
\* holds the exponent e of its value 2^e, and ZeroBackoff when the value is 0.
ZeroBackoff == -1

\* std::cmp::min(backoff, 60)
min_backoff(b) ==
    IF b = ZeroBackoff THEN 0
    ELSE IF b >= 6 THEN MaxWaitSecs
    ELSE IF 2^b < MaxWaitSecs THEN 2^b ELSE MaxWaitSecs

\* connect_async(request).await returns Ok: backoff = 1, then the read loop
Connected ==
    /\ conn_pc = "connect"
    /\ backoff' = 0
    /\ n_fail' = 0
    /\ conn_pc' = "connected"
    /\ UNCHANGED <<risk_vars, riskapi_vars, exec_vars, market_vars, strategy_vars,
                   wait_secs, ever_connected>>

\* The read loop breaks (Close, read error, end of stream, failed ping or pong)
\* and the wait is computed
ConnectionEnds ==
    /\ conn_pc = "connected"
    /\ wait_secs' = min_backoff(backoff)
    /\ ever_connected' = TRUE
    /\ conn_pc' = "sleep"
    /\ UNCHANGED <<risk_vars, riskapi_vars, exec_vars, market_vars, strategy_vars,
                   backoff, n_fail>>

\* connect_async(request).await returns Err and the wait is computed
ConnectFailed ==
    /\ conn_pc = "connect"
    /\ n_fail < MaxFailures
    /\ n_fail' = n_fail + 1
    /\ wait_secs' = min_backoff(backoff)
    /\ conn_pc' = "sleep"
    /\ UNCHANGED <<risk_vars, riskapi_vars, exec_vars, market_vars, strategy_vars,
                   backoff, ever_connected>>

\* The sleep ends and backoff *= 2 runs.  When the product does not fit a u64
\* the build decides: with overflow checks the task panics, without them the
\* value wraps (2^64 mod 2^64 = 0).
BackoffSleep ==
    /\ conn_pc = "sleep"
    /\ IF backoff = ZeroBackoff
       THEN backoff' = ZeroBackoff /\ conn_pc' = "connect"
       ELSE IF backoff + 1 < U64Bits
            THEN backoff' = backoff + 1 /\ conn_pc' = "connect"
            ELSE \/ backoff' = ZeroBackoff /\ conn_pc' = "connect"
                 \/ backoff' = backoff /\ conn_pc' = "panicked"
    /\ UNCHANGED <<risk_vars, riskapi_vars, exec_vars, market_vars, strategy_vars,
                   wait_secs, n_fail, ever_connected>>

\* ------------------------------------------------------------- locks

\* A guard: RiskManager.state is a Mutex ("lock"); MarketMonitor's order_books,
\* active_markets and token_to_market are RwLocks ("read", "write")
Guard(lock, mode) == [lock |-> lock, mode |-> mode]

\* The guards a task's next step takes, in order; each is dropped before the
\* next is taken.  The feed task: the key listing after a connection, then per
\* book message the index lookup and the insertion, then
\* update_normalization_state (get_market_tokens, get_best_asks, the write of
\* the state).  The strategy task: get_market_tokens and check_liquidity,
\* get_market_state_clone, get_best_asks twice, check_trade_size, record_pnl or
\* enter_safe_mode, mark_trade_executed.
Sections(task) ==
    IF task = "feed"
    THEN IF conn_pc = "connect" THEN << Guard("token_to_market", "read") >>
         ELSE IF conn_pc # "connected" THEN << >>
         ELSE IF ws_pc = "read"
              THEN << Guard("token_to_market", "read"), Guard("order_books", "write") >>
         ELSE IF ws_pc = "norm"
              THEN LET t == get_market_tokens(ws_mid)
                   IN << Guard("active_markets", "read") >> \o
                      (IF ~t.some THEN << >>
                       ELSE << Guard("order_books", "read") >> \o
                            (IF get_best_asks(t.yes, t.no).some
                             THEN << Guard("active_markets", "write") >> ELSE << >>))
         ELSE << >>
    ELSE IF st_pc = "liq"
         THEN << Guard("active_markets", "read") >> \o
              (IF get_market_tokens(st_mid).some
               THEN << Guard("order_books", "read") >> ELSE << >>)
         ELSE IF st_pc = "gate" THEN << Guard("active_markets", "read") >>
         ELSE IF st_pc = "read1" THEN << Guard("order_books", "read") >>
         ELSE IF st_pc = "read2"
              THEN LET t == get_market_tokens(st_mid)
                       r == get_best_asks(t.yes, t.no)
                   IN << Guard("order_books", "read") >> \o
                      (IF r.some /\ check_opportunity(r.yes, r.no)
                       THEN << Guard("risk", "lock") >> ELSE << >>)
         ELSE IF st_pc = "await" /\ pc = "join" /\ Done(res_yes) /\ Done(res_no)
              THEN IF filled_yes \/ filled_no THEN << Guard("risk", "lock") >> ELSE << >>
         ELSE IF st_pc = "await" /\ pc = "idle" /\ status = "Filled"
              THEN << Guard("active_markets", "write") >>
         ELSE << >>

\* RwLock::read waits for a writer, RwLock::write and Mutex::lock for any holder
Available(task, g) ==
    \A u \in Tasks \ {task} :
        \A h \in held[u] :
            h.lock = g.lock => (g.mode = "read" /\ h.mode = "read")

\* a guard kept past the end of its scope
Release_leaking(task) == held' = held

\* The guard goes out of scope
Release(task) == held' = [held EXCEPT ![task] = {}]

\* A task takes the guard of its next critical section
Enter(task) ==
    /\ held[task] = {}
    /\ passed[task] < Len(Sections(task))
    /\ Available(task, Sections(task)[passed[task] + 1])
    /\ held' = [held EXCEPT ![task] = {Sections(task)[passed[task] + 1]}]
    /\ UNCHANGED <<risk_vars, riskapi_vars, exec_vars, market_vars, strategy_vars,
                   conn_vars, passed>>

\* A task leaves a critical section that is not the last of its step
Leave(task) ==
    /\ held[task] # {}
    /\ passed[task] + 1 < Len(Sections(task))
    /\ Release(task)
    /\ passed' = [passed EXCEPT ![task] = @ + 1]
    /\ UNCHANGED <<risk_vars, riskapi_vars, exec_vars, market_vars, strategy_vars, conn_vars>>

\* The task is in the last critical section of its step, or the step has none
\* left to take
InLastSection(task) ==
    IF held[task] # {} THEN passed[task] + 1 >= Len(Sections(task))
    ELSE passed[task] >= Len(Sections(task))

\* The step takes its effect as the task leaves its last critical section
Finish(task) ==
    /\ Release(task)
    /\ passed' = [passed EXCEPT ![task] = 0]

\* ------------------------------------------------------- specifications

NoSnapshot == [seen |-> FALSE, bids |-> <<>>, asks |-> <<>>]
NoPrices == [some |-> FALSE, yes |-> 0, no |-> 0]

NoCall == [market_id |-> "", yes_token |-> "", no_token |-> "",
           price_yes |-> 0, price_no |-> 0, size |-> 0]

Init ==
    /\ RiskInit
    /\ risk_call = [op |-> "new", arg |-> 0, ret |-> FALSE]
    /\ n_risk_calls = 0
    /\ pc = "idle"
    /\ call = NoCall
    /\ entry = [current_balance |-> initial_balance, daily_pnl |-> 0,
                safe_mode |-> FALSE, pnl_calls |-> 0, n_orders |-> 0]
    /\ res_yes = NoRes
    /\ res_no = NoRes
    /\ outcome_yes = "none"
    /\ outcome_no = "none"
    /\ status = "none"
    /\ history = <<>>
    /\ orders = <<>>
    /\ order_books = [t \in Tokens |-> NoBook]
    /\ market_state = [m \in Markets |-> DefaultMarketState]
    /\ ws_pc = "read"
    /\ ws_mid = ""
    /\ subscribed = FALSE
    /\ chan = <<>>
    /\ lagged = 0
    /\ clock = 0
    /\ hist = [m \in Markets |-> <<>>]
    /\ n_msgs = 0
    /\ last_snapshot = [t \in Tokens |-> NoSnapshot]
    /\ n_sent = 0
    /\ st_pc = "start"
    /\ st_mid = ""
    /\ st_first = NoPrices
    /\ rx_next = 0
    /\ last_recv = [kind |-> "none", n |-> 0, seq |-> 0]
    /\ st_exit = "none"
    /\ conn_pc = "connect"
    /\ backoff = 0
    /\ wait_secs = -1
    /\ n_fail = 0
    /\ ever_connected = FALSE
    /\ held = [t \in Tasks |-> {}]
    /\ passed = [t \in Tasks |-> 0]

RiskNext ==
    \/ \E a \in CheckAmounts : CallCheckTradeSize(a) /\ UNCHANGED lock_vars
    \/ \E d \in PnlDeltas : CallRecordPnl(d) /\ UNCHANGED lock_vars
    \/ CallEnterSafeMode /\ UNCHANGED lock_vars
    \/ CallIsSafeMode /\ UNCHANGED lock_vars

SpecRisk == Init /\ [][RiskNext]_vars

ExecNext ==
    \/ \E m \in Markets, pp \in PricePairs, sz \in Sizes :
           execute_arb(m, pp[1], pp[2], sz) /\ UNCHANGED strategy_vars /\ UNCHANGED lock_vars
    \/ \E o \in Outcomes : PlaceYes(o) /\ UNCHANGED lock_vars
    \/ \E o \in Outcomes : PlaceNo(o) /\ UNCHANGED lock_vars
    \/ ClassifyFilled /\ UNCHANGED lock_vars
    \/ ClassifyCancelled /\ UNCHANGED lock_vars
    \/ ClassifyPartial /\ UNCHANGED lock_vars
    \/ \E o \in Outcomes : handle_emergency(o) /\ UNCHANGED lock_vars
    \/ EmergencyWake /\ UNCHANGED lock_vars

SpecExec == Init /\ [][ExecNext]_vars

MarketNext ==
    \/ \E msg \in FeedMessages : n_msgs < MaxMsgs /\ handle_message(msg) /\ UNCHANGED lock_vars
    \/ NormalizationStep /\ UNCHANGED lock_vars
    \/ Notify /\ UNCHANGED lock_vars
    \/ \E m \in Markets : mark_trade_executed(m) /\ UNCHANGED strategy_vars /\ UNCHANGED lock_vars
    \/ Tick /\ UNCHANGED lock_vars

SpecMarket == Init /\ [][MarketNext]_vars

StrategyNext ==
    \/ \E msg \in StrategyFeed : n_msgs < MaxFeed /\ handle_message(msg) /\ UNCHANGED lock_vars
    \/ NormalizationStep /\ UNCHANGED lock_vars
    \/ Notify /\ UNCHANGED lock_vars
    \/ Subscribe /\ UNCHANGED lock_vars
    \/ Recv /\ UNCHANGED lock_vars
    \/ LiquidityGate /\ UNCHANGED lock_vars
    \/ ReentryGate /\ UNCHANGED lock_vars
    \/ FirstRead /\ UNCHANGED lock_vars
    \/ SecondRead /\ UNCHANGED lock_vars
    \/ \E o \in StrategyOutcomes : PlaceYes(o) /\ UNCHANGED lock_vars
    \/ \E o \in StrategyOutcomes : PlaceNo(o) /\ UNCHANGED lock_vars
    \/ ClassifyFilled /\ UNCHANGED lock_vars
    \/ ClassifyCancelled /\ UNCHANGED lock_vars
    \/ ClassifyPartial /\ UNCHANGED lock_vars
    \/ \E o \in StrategyOutcomes : handle_emergency(o) /\ UNCHANGED lock_vars
    \/ EmergencyWake /\ UNCHANGED lock_vars
    \/ AfterExec /\ UNCHANGED lock_vars
    \/ Tick /\ UNCHANGED lock_vars

SpecStrategy == Init /\ [][StrategyNext]_vars

\* The strategy subscribed before the feed delivers, every order fills, and a
\* message is read only with fewer than MaxBacklog notifications waiting.
ReentryNext ==
    \/ \E msg \in StrategyFeed :
           /\ n_msgs < MaxReentryFeed
           /\ subscribed
           /\ Len(chan) < MaxBacklog
           /\ handle_message(msg)
           /\ UNCHANGED lock_vars
    \/ NormalizationStep /\ UNCHANGED lock_vars
    \/ Notify /\ UNCHANGED lock_vars
    \/ Subscribe /\ UNCHANGED lock_vars
    \/ Recv /\ UNCHANGED lock_vars
    \/ LiquidityGate /\ UNCHANGED lock_vars
    \/ ReentryGate /\ UNCHANGED lock_vars
    \/ FirstRead /\ UNCHANGED lock_vars
    \/ SecondRead /\ UNCHANGED lock_vars
    \/ PlaceYes("ok_id") /\ UNCHANGED lock_vars
    \/ PlaceNo("ok_id") /\ UNCHANGED lock_vars
    \/ ClassifyFilled /\ UNCHANGED lock_vars
    \/ AfterExec /\ UNCHANGED lock_vars
    \/ Tick /\ UNCHANGED lock_vars

SpecReentry == Init /\ [][ReentryNext]_vars

\* The feed task and the strategy's receive loop around the channel
ChannelNext ==
    \/ \E msg \in ChannelFeed : n_msgs < MaxSends /\ subscribed /\ handle_message(msg) /\ UNCHANGED lock_vars
    \/ NormalizationStep /\ UNCHANGED lock_vars
    \/ Notify /\ UNCHANGED lock_vars
    \/ Subscribe /\ UNCHANGED lock_vars
    \/ Recv /\ UNCHANGED lock_vars
    \/ LiquidityGate /\ UNCHANGED lock_vars

SpecChannel == Init /\ [][ChannelNext]_vars

\* The feed task reading payloads of every kind, with the strategy's receiver
\* subscribed at some point
IngestNext ==
    \/ \E msg \in FeedMessages : n_msgs < MaxIngest /\ handle_message(msg) /\ UNCHANGED lock_vars
    \/ NormalizationStep /\ UNCHANGED lock_vars
    \/ Notify /\ UNCHANGED lock_vars
    \/ Subscribe /\ UNCHANGED lock_vars

SpecIngest == Init /\ [][IngestNext]_vars

\* The two tasks at the grain of their critical sections: the steps of
\* SpecStrategy, each entered through the guards its code takes.  The strategy
\* has subscribed before the feed delivers, and a message is read only with
\* fewer than MaxBacklog notifications waiting.
LocksNext ==
    \/ /\ ws_pc = "read" /\ conn_pc = "connected" =>
              (n_msgs < MaxLockFeed /\ subscribed /\ Len(chan) < MaxBacklog)
       /\ Enter("feed")
    \/ Leave("feed")
    \/ InLastSection("feed") /\ Connected /\ Finish("feed")
    \/ \E msg \in LockFeed(n_msgs + 1) :
           /\ conn_pc = "connected"
           /\ n_msgs < MaxLockFeed
           /\ InLastSection("feed")
           /\ handle_message(msg)
           /\ Finish("feed")
    \/ conn_pc = "connected" /\ InLastSection("feed") /\ NormalizationStep /\ Finish("feed")
    \/ conn_pc = "connected" /\ InLastSection("feed") /\ Notify /\ Finish("feed")
    \/ Enter("strategy")
    \/ Leave("strategy")
    \/ InLastSection("strategy") /\ Subscribe /\ Finish("strategy")
    \/ InLastSection("strategy") /\ Recv /\ Finish("strategy")
    \/ InLastSection("strategy") /\ LiquidityGate /\ Finish("strategy")
    \/ InLastSection("strategy") /\ ReentryGate /\ Finish("strategy")
    \/ InLastSection("strategy") /\ FirstRead /\ Finish("strategy")
    \/ InLastSection("strategy") /\ SecondRead /\ Finish("strategy")
    \/ \E o \in StrategyOutcomes : InLastSection("strategy") /\ PlaceYes(o) /\ Finish("strategy")
    \/ \E o \in StrategyOutcomes : InLastSection("strategy") /\ PlaceNo(o) /\ Finish("strategy")
    \/ InLastSection("strategy") /\ ClassifyFilled /\ Finish("strategy")
    \/ InLastSection("strategy") /\ ClassifyCancelled /\ Finish("strategy")
    \/ InLastSection("strategy") /\ ClassifyPartial /\ Finish("strategy")
    \/ \E o \in StrategyOutcomes :
           InLastSection("strategy") /\ handle_emergency(o) /\ Finish("strategy")
    \/ InLastSection("strategy") /\ EmergencyWake /\ Finish("strategy")
    \/ InLastSection("strategy") /\ AfterExec /\ Finish("strategy")

SpecLocks == Init /\ [][LocksNext]_vars

BackoffNext ==
    \/ Connected /\ UNCHANGED lock_vars
    \/ ConnectionEnds /\ UNCHANGED lock_vars
    \/ ConnectFailed /\ UNCHANGED lock_vars
    \/ BackoffSleep /\ UNCHANGED lock_vars

SpecBackoff == Init /\ [][BackoffNext]_vars

\* --------------------------------------------------------------- claims

\* execute_arb has returned and its last call got as far as classifying fills
Returned == pc = "idle" /\ Len(history) > 0
Classified == Done(res_yes) /\ Done(res_no)

\* The orders submitted by the last execute_arb call
CallOrders == SubSeq(orders, entry.n_orders + 1, Len(orders))
SellsOf(seq) == {i \in 1..Len(seq) : seq[i].side = "Sell"}

\* C1: an execute_arb in which exactly one BUY leg was classified as filled
\* has returned PartialFillEmergency with safe_mode set, and among the orders
\* it submitted there is exactly one SELL, on the filled leg's token (not the
\* unfilled leg's) and of the trade's size; no other outcome returns
\* PartialFillEmergency.
C1_PartialFillEmergency ==
    /\ (Returned /\ Classified /\ (filled_yes # filled_no)) =>
          /\ status = "PartialFillEmergency"
          /\ safe_mode
          /\ Cardinality(SellsOf(CallOrders)) = 1
          /\ \A i \in SellsOf(CallOrders) :
                /\ CallOrders[i].token_id = (IF filled_yes THEN call.yes_token ELSE call.no_token)
                /\ CallOrders[i].token_id # (IF filled_yes THEN call.no_token ELSE call.yes_token)
                /\ CallOrders[i].size = call.size
                /\ CallOrders[i].market_id = call.market_id
    /\ (Returned /\ status = "PartialFillEmergency") => (Classified /\ (filled_yes # filled_no))

C1_Witness ==
    /\ Returned /\ status = "PartialFillEmergency"
    /\ ~filled_yes /\ filled_no
    /\ orders[Len(orders)].token_id = call.no_token

\* C2: safe_mode is a latch: no step of any sequence of check_trade_size,
\* record_pnl, enter_safe_mode and is_safe_mode calls clears it; it is set only
\* by enter_safe_mode or by a record_pnl whose updated daily_pnl is below
\* -(initial_balance * max_daily_loss_pct), and every such record_pnl sets it.
C2_SafeModeLatch ==
    [][ /\ (safe_mode => safe_mode')
        /\ ((~safe_mode /\ safe_mode') =>
               \/ risk_call'.op = "enter_safe_mode"
               \/ (risk_call'.op = "record_pnl" /\ daily_pnl' * Scale < -loss_limit))
        /\ ((pnl_calls' = pnl_calls + 1 /\ daily_pnl' * Scale < -loss_limit) => safe_mode')
      ]_vars

\* safe_mode was set by record_pnl alone and a positive delta has since
\* brought daily_pnl back above the limit
C2_Witness ==
    /\ safe_mode
    /\ pnl_calls = n_risk_calls
    /\ risk_call.op = "record_pnl" /\ risk_call.arg > 0
    /\ daily_pnl * Scale >= -loss_limit

\* C3: whenever safe_mode is true check_trade_size returns false for every
\* amount, zero and amounts within the capital limit included.
C3_SafeModeRejectsEveryAmount ==
    /\ safe_mode => \A a \in CheckAmounts : check_trade_size(a) = FALSE
    /\ (safe_mode /\ risk_call.op = "check_trade_size") => risk_call.ret = FALSE

C3_Witness ==
    /\ safe_mode
    /\ risk_call.op = "check_trade_size" /\ risk_call.arg = 0 /\ risk_call.ret = FALSE
    /\ daily_pnl >= 0

\* Some execute_arb has returned PartialFillEmergency
EmergencySeen == \E i \in 1..Len(history) : history[i] = "PartialFillEmergency"

\* C4: once an execute_arb has returned PartialFillEmergency, check_trade_size
\* is false for every amount, every later execute_arb returns Failed, and the
\* compensating SELL is the last order submitted (and the only SELL).
C4_NothingAfterEmergency ==
    EmergencySeen =>
        /\ \A a \in CheckAmounts : check_trade_size(a) = FALSE
        /\ \A i, j \in 1..Len(history) :
              (i < j /\ history[i] = "PartialFillEmergency") => history[j] = "Failed"
        /\ pc = "idle"
        /\ Len(orders) > 0
        /\ orders[Len(orders)].side = "Sell"
        /\ Cardinality(SellsOf(orders)) = 1

\* a call whose cost is within the capital limit was refused after an emergency
C4_Witness ==
    /\ Len(history) >= 2
    /\ history[Len(history) - 1] = "PartialFillEmergency"
    /\ history[Len(history)] = "Failed"
    /\ total_cost(call.price_yes, call.price_no, call.size) * Scale
          <= current_balance * max_trade_capital_pct

\* C5: the step that enters execute_arb leaves RiskState unchanged, and when
\* check_trade_size of (price_yes + price_no) * size is false in the state it is
\* entered in, the call returns Failed in that step with no order submitted.
C5_RiskRejectionSubmitsNothing ==
    [][ pc = "idle" =>
           /\ UNCHANGED <<current_balance, daily_pnl, safe_mode>>
           /\ (~check_trade_size(total_cost(call'.price_yes, call'.price_no, call'.size)) =>
                  /\ pc' = "idle"
                  /\ status' = "Failed"
                  /\ history' = Append(history, "Failed")
                  /\ orders' = orders
                  /\ res_yes' = NoRes /\ res_no' = NoRes)
      ]_vars

\* a call refused for its size alone: 0.50 + 0.52 at size 10 outside safe mode
C5_Witness ==
    /\ Returned /\ status = "Failed"
    /\ ~entry.safe_mode
    /\ call.size = 10 /\ call.price_yes = 50
    /\ Len(orders) = entry.n_orders

\* C6: an execute_arb whose two legs were both classified as filled has
\* returned Filled, with current_balance equal to its value at entry plus
\* (1 - (price_yes + price_no)) * size and exactly one record_pnl call made.
C6_FilledBooksProfitOnce ==
    (Returned /\ Classified /\ filled_yes /\ filled_no) =>
        /\ status = "Filled"
        /\ current_balance =
              entry.current_balance + (Scale - (call.price_yes + call.price_no)) * call.size
        /\ pnl_calls = entry.pnl_calls + 1

\* 0.40 + 0.55 at size 10: the balance grew by 0.50
C6_Witness ==
    /\ Returned /\ status = "Filled"
    /\ call.price_yes = 40 /\ call.price_no = 55 /\ call.size = 10
    /\ current_balance = entry.current_balance + 50

\* C7: an execute_arb neither of whose legs was classified as filled has
\* returned Cancelled, having submitted the two BUY orders and nothing else,
\* with current_balance, daily_pnl and safe_mode as they were at entry.
C7_CancelledChangesNothing ==
    (Returned /\ Classified /\ ~filled_yes /\ ~filled_no) =>
        /\ status = "Cancelled"
        /\ Len(orders) = entry.n_orders + 2
        /\ SellsOf(CallOrders) = {}
        /\ current_balance = entry.current_balance
        /\ daily_pnl = entry.daily_pnl
        /\ safe_mode = entry.safe_mode
        /\ pnl_calls = entry.pnl_calls

C7_Witness ==
    /\ Returned /\ status = "Cancelled"
    /\ outcome_yes = "http_err" /\ outcome_no = "sign_err"

\* C8: a leg is classified as filled if and only if its submission returned a
\* venue-assigned order identifier; a success response without an identifier
\* is classified as not filled.  Stated of the classification execute_arb has
\* acted on, and of the status it then returns.
C8_FilledIffVenueOrderId ==
    /\ (Classified /\ pc # "join") =>
          /\ (filled_yes <=> outcome_yes = "ok_id")
          /\ (filled_no <=> outcome_no = "ok_id")
    /\ (Returned /\ status = "Filled") => (outcome_yes = "ok_id" /\ outcome_no = "ok_id")
    /\ (Returned /\ status = "Cancelled") => (outcome_yes # "ok_id" /\ outcome_no # "ok_id")

\* Some N = normalization_updates consecutive entries of h are all TRUE
HasRun(h) ==
    \E i \in normalization_updates..Len(h) :
        \A j \in (i - normalization_updates + 1)..i : h[j]

\* C9: a market's is_normalized is true exactly when, since the last reset
\* (startup or mark_trade_executed), some update was the N-th of N consecutive
\* updates with best_ask_yes + best_ask_no >= normalization_threshold; so it
\* is false after N-1 such updates and true after the N-th.
C9_NormalizedOnNthConsecutive ==
    \A m \in Markets : market_state[m].is_normalized <=> HasRun(hist[m])

C9_Witness ==
    \E m \in Markets :
        /\ hist[m] = <<TRUE, TRUE, TRUE>>
        /\ market_state[m].is_normalized
        /\ market_state[m].consecutive_normalized_updates = normalization_updates

\* C10: an update whose best asks sum below the threshold sets
\* consecutive_normalized_updates to 0 and leaves is_normalized as it was; a
\* true is_normalized is cleared only by mark_trade_executed for that market.
C10_BelowThresholdResetsCounterOnly ==
    [][ \A m \in Markets :
           /\ (hist'[m] = Append(hist[m], FALSE) =>
                  /\ market_state'[m].consecutive_normalized_updates = 0
                  /\ market_state'[m].is_normalized = market_state[m].is_normalized)
           /\ ((market_state[m].is_normalized /\ ~market_state'[m].is_normalized) =>
                  /\ hist'[m] = <<>>
                  /\ market_state'[m].last_trade_time = clock
                  /\ market_state'[m].consecutive_normalized_updates = 0)
      ]_vars

\* a latched market after a reading below the threshold
C10_Witness ==
    \E m \in Markets :
        /\ market_state[m].is_normalized
        /\ Len(hist[m]) > 0 /\ hist[m][Len(hist[m])] = FALSE
        /\ market_state[m].consecutive_normalized_updates = 0

\* The levels of a received side that parse, in the order received
Parsed(raw) ==
    LET S == SelectSeq(raw, LAMBDA l : l.ok)
    IN [i \in 1..Len(S) |-> [price |-> S[i].price, size |-> S[i].size]]

\* The token's last stored snapshot has an ask that parses, and the lowest
\* price among such asks
Quoted(t) == last_snapshot[t].seen /\ Parsed(last_snapshot[t].asks) # <<>>
LowestAsk(t) ==
    LET A == Parsed(last_snapshot[t].asks)
    IN CHOOSE p \in {A[i].price : i \in 1..Len(A)} : \A i \in 1..Len(A) : p <= A[i].price

\* C16: after any sequence of ingested book messages, get_best_asks returns a
\* pair exactly when both tokens' last stored snapshots have an ask; each price
\* it returns is the lowest ask price of that token's last stored snapshot, and
\* it returns nothing when a token has no stored book or an empty ask side.
C16_BestAskIsMinOfLatestSnapshot ==
    \A m \in Markets :
        LET y == yes_token_of(m)
            n == no_token_of(m)
            r == get_best_asks(y, n)
        IN /\ r.some <=> (Quoted(y) /\ Quoted(n))
           /\ r.some => (r.yes = LowestAsk(y) /\ r.no = LowestAsk(n))
           /\ (~order_books[y].present \/ order_books[y].asks = <<>>) => ~r.some
           /\ (~order_books[n].present \/ order_books[n].asks = <<>>) => ~r.some

\* the lowest ask 0.44 stands after a dearer level in the YES token's snapshot
C16_Witness ==
    /\ n_msgs >= 3
    /\ Len(order_books["y1"].asks) = 2 /\ order_books["y1"].asks[1].price = 55
    /\ get_best_asks("y1", "n1") = [some |-> TRUE, yes |-> 44, no |-> 55]

\* C17: every token's stored book is exactly the parsed bids and asks of the
\* last book message stored for it (nothing of an earlier snapshot remains), and
\* a step that stores a book changes the book of one token only, a token of
\* the market being updated.
C17_IngestReplacesBookWholesale ==
    [][ /\ \A t \in Tokens :
              order_books'[t] =
                  IF last_snapshot'[t].seen
                  THEN [present |-> TRUE, bids |-> Parsed(last_snapshot'[t].bids),
                        asks |-> Parsed(last_snapshot'[t].asks)]
                  ELSE NoBook
        /\ Cardinality({t \in Tokens : order_books'[t] # order_books[t]}) <= 1
        /\ \A t \in Tokens :
              order_books'[t] # order_books[t] => token_to_market(t) = ws_mid'
      ]_vars

\* both books of market m1 were replaced: the first applied update summed to
\* 0.99 or more, the last one to 0.88
C17_Witness ==
    /\ Len(hist["m1"]) >= 2 /\ hist["m1"][1] /\ ~hist["m1"][Len(hist["m1"])]
    /\ get_best_asks("y1", "n1") = [some |-> TRUE, yes |-> 44, no |-> 44]
    /\ Len(order_books["y1"].asks) = 2 /\ Len(order_books["n1"].asks) = 2

\* min(2^n, 60)
CappedPowerOfTwo(n) == IF n >= 6 THEN MaxWaitSecs ELSE IF 2^n < MaxWaitSecs THEN 2^n ELSE MaxWaitSecs

\* C19: while the feed reader waits before reconnecting, the wait is 1 when a
\* successfully established connection has just ended, min(2^n, 60) after the
\* n-th consecutive failed attempt since a connection last ended, and in every
\* case at least 1 and at most 60.
C19_BackoffWaitWithinBounds ==
    conn_pc = "sleep" =>
        /\ (ever_connected /\ n_fail = 0) => wait_secs = 1
        /\ (ever_connected /\ n_fail >= 1) => wait_secs = CappedPowerOfTwo(n_fail)
        /\ wait_secs >= 1
        /\ wait_secs <= MaxWaitSecs

\* The market has no trade on record, or trade_cooldown_ms has elapsed since it
Cooled(m) ==
    \/ market_state[m].last_trade_time = -1
    \/ (clock - market_state[m].last_trade_time) * MsPerTick >= trade_cooldown_ms

\* C11: from the re-entry gate to the return of execute_arb, the market being
\* processed has is_normalized set, N consecutive qualifying updates applied
\* since its last reset (startup or a Filled trade), and no trade within the
\* last trade_cooldown_ms; and execute_arb runs only when dispatched past that
\* gate, for that market.
C11_ReentryProtection ==
    /\ st_pc \in {"read1", "read2", "await"} =>
          /\ market_state[st_mid].is_normalized
          /\ HasRun(hist[st_mid])
          /\ Cooled(st_mid)
    /\ pc # "idle" => (st_pc = "await" /\ call.market_id = st_mid)
    /\ Len(history) > 0 => call.market_id = st_mid

\* a second execute_arb on a market after its first one was Filled
C11_Witness ==
    /\ history = <<"Filled">>
    /\ pc = "join" /\ st_pc = "await"
    /\ market_state[st_mid].last_trade_time # -1
    /\ clock > market_state[st_mid].last_trade_time
    /\ Len(hist[st_mid]) >= normalization_updates

\* C12: the step in which the strategy takes a Filled status from execute_arb
\* sets that market's is_normalized to false, its
\* consecutive_normalized_updates to 0 and its last_trade_time to the current
\* time, and leaves the state of every other market as it was.
C12_FilledResetsThatMarketOnly ==
    [][ (st_pc = "await" /\ st_pc' # "await" /\ status = "Filled") =>
           /\ market_state'[st_mid].is_normalized = FALSE
           /\ market_state'[st_mid].consecutive_normalized_updates = 0
           /\ market_state'[st_mid].last_trade_time = clock
           /\ \A m \in Markets \ {st_mid} : market_state'[m] = market_state[m]
      ]_vars

C12_Witness ==
    /\ st_pc = "recv" /\ st_exit = "Filled" /\ st_mid = "m1"
    /\ ~market_state["m1"].is_normalized
    /\ market_state["m1"].consecutive_normalized_updates = 0
    /\ market_state["m1"].last_trade_time = clock
    /\ market_state["m2"] = DefaultMarketState

\* C13: the step in which the strategy takes any other status from
\* execute_arb changes no market's state and submits nothing, and the strategy
\* goes back to waiting for a notification; execute_arb is entered only from
\* the second reading of a notification's processing, never again for the
\* notification whose trade did not fill.
C13_OtherStatusesLeaveStateAlone ==
    [][ /\ (st_pc = "await" /\ st_pc' # "await") => st_pc' = "recv"
        /\ (st_pc = "await" /\ st_pc' # "await" /\ status # "Filled") =>
               /\ status \in {"Failed", "Cancelled", "PartialFillEmergency"}
               /\ market_state' = market_state
               /\ orders' = orders
               /\ history' = history
               /\ pc' = "idle"
        /\ (pc = "idle" /\ (pc' # "idle" \/ history' # history)) =>
               (st_pc = "read2" /\ st_exit = "none")
      ]_vars

\* an emergency and then a refused trade, with the market still latched and
\* no trade on its record
C13_Witness ==
    /\ history = <<"PartialFillEmergency", "Failed">>
    /\ st_pc = "recv" /\ st_exit = "Failed"
    /\ market_state[st_mid].is_normalized
    /\ market_state[st_mid].last_trade_time = -1

\* Prices from 0.00 to 1.00 in hundredths
PriceRange == 0..Scale

\* The best asks of the market being processed stand and leave min_edge
OpportunityNow ==
    LET r == get_best_asks(yes_token_of(st_mid), no_token_of(st_mid))
    IN r.some /\ check_opportunity(r.yes, r.no)

\* check_opportunity agrees with 1 - (py*(1+fee) + pn*(1+fee)) >= min_edge on
\* every pair of prices, 0.40 + 0.55 and 0.50 + 0.52 among them
OpportunityRule ==
    /\ \A py, pn \in PriceRange :
          check_opportunity(py, pn) <=>
              (Scale - py - pn) * Scale - (py + pn) * TAKER_FEE >= min_edge * Scale
    /\ check_opportunity(40, 55)
    /\ ~check_opportunity(50, 52)

\* C14: check_opportunity(price_yes, price_no) is true exactly when
\* 1 - (price_yes*(1+fee) + price_no*(1+fee)) >= min_edge, so 0.40 + 0.55 (an
\* edge of exactly 0.05) is accepted and 0.50 + 0.52 is refused; a reading of
\* the best asks that fails it ends the processing with nothing submitted, and
\* every execute_arb is entered with prices that pass it.
C14_OpportunityIffEdgeAtLeastMin ==
    [][ /\ OpportunityRule
        /\ (st_pc \in {"read1", "read2"} /\ st_pc' # st_pc /\ ~OpportunityNow) =>
               /\ st_pc' = "recv"
               /\ orders' = orders
               /\ UNCHANGED <<exec_vars, risk_vars>>
        /\ call' # call => check_opportunity(call'.price_yes, call'.price_no)
      ]_vars

\* a trade dispatched at an edge of exactly min_edge, after a reading without
\* edge ended an earlier processing
C14_Witness ==
    /\ st_pc = "await" /\ pc = "join"
    /\ call.price_yes = 40 /\ call.price_no = 55
    /\ Scale - (call.price_yes + call.price_no) = min_edge

\* C15: execute_arb is entered only in a step that reads both best asks anew,
\* after a first reading passed check_opportunity, and finds that they pass it
\* too; the prices it is handed are those of that second reading (and the
\* size is trade_size).  When the second reading fails, the processing ends
\* with no order submitted and no market or risk state changed.
C15_SecondReadDecidesAndPrices ==
    [][ LET r == get_best_asks(yes_token_of(st_mid), no_token_of(st_mid))
        IN /\ (pc = "idle" /\ (pc' # "idle" \/ history' # history)) =>
                  /\ st_pc = "read2"
                  /\ st_first.some /\ check_opportunity(st_first.yes, st_first.no)
                  /\ r.some /\ check_opportunity(r.yes, r.no)
                  /\ call'.market_id = st_mid
                  /\ call'.price_yes = r.yes /\ call'.price_no = r.no
                  /\ call'.size = trade_size
           /\ (st_pc = "read2" /\ st_pc' # "read2" /\ ~(r.some /\ check_opportunity(r.yes, r.no))) =>
                  /\ st_pc' = "recv"
                  /\ orders' = orders
                  /\ market_state' = market_state
                  /\ order_books' = order_books
                  /\ UNCHANGED <<exec_vars, risk_vars>>
      ]_vars

\* the YES ask moved from 0.40 to 0.39 between the two readings and the trade
\* was entered at 0.39
C15_Witness ==
    /\ st_pc = "await" /\ pc = "join"
    /\ st_first.yes = 40 /\ st_first.no = 55
    /\ call.price_yes = 39 /\ call.price_no = 55

\* The token's last stored snapshot has an ask, and the first of its asks at
\* the lowest price has at least trade_size * min_liquidity_multiplier
LegLiquid(t) ==
    /\ Quoted(t)
    /\ LET A == Parsed(last_snapshot[t].asks)
           i == CHOOSE k \in 1..Len(A) :
                    /\ A[k].price = LowestAsk(t)
                    /\ \A j \in 1..(k - 1) : A[j].price # LowestAsk(t)
       IN A[i].size >= trade_size * min_liquidity_multiplier

MarketLiquid(m) == LegLiquid(yes_token_of(m)) /\ LegLiquid(no_token_of(m))

\* C18: check_liquidity with trade_size * min_liquidity_multiplier is true
\* exactly when, for both legs, a book with an ask is stored and the size of
\* its lowest-priced ask level alone reaches that amount; the processing goes
\* past the liquidity gate only then, and otherwise ends with no order
\* submitted and nothing changed.
C18_LiquidityGateOnBestAskSize ==
    [][ /\ \A m \in Markets :
              check_liquidity(yes_token_of(m), no_token_of(m),
                              trade_size * min_liquidity_multiplier) <=> MarketLiquid(m)
        /\ (st_pc = "liq" /\ st_pc' # "liq") =>
               IF MarketLiquid(st_mid)
               THEN st_pc' = "gate"
               ELSE /\ st_pc' = "recv"
                    /\ orders' = orders
                    /\ UNCHANGED <<exec_vars, risk_vars, market_state>>
      ]_vars

\* the gate refused a market whose YES token has 49 at its best ask and 100
\* one level behind
C18_Witness ==
    /\ st_pc = "recv" /\ st_exit = "liquidity"
    /\ order_books["n1"].present /\ order_books["n1"].asks # <<>>
    /\ Len(order_books["y1"].asks) = 2
    /\ best_ask(order_books["y1"].asks).size = 49
    /\ total_size(order_books["y1"].asks) >= trade_size * min_liquidity_multiplier

\* Values sent since the receiver subscribed that it has neither been given
\* nor been told it missed
Backlog == n_sent - (rx_next - 1)

\* C20: a send on the channel is never held back by the values waiting in it;
\* a receive by a receiver that is more than the channel's slots behind
\* returns Lagged with exactly the number of values overwritten before it took
\* them and moves it to the oldest value retained, the receive loop going on;
\* any other receive returns the next value sent, none skipped.
C20_ChannelNeverBlocksAndReportsLag ==
    [][ /\ ws_pc = "send" => ENABLED Notify
        /\ (ws_pc = "send" /\ ws_pc' # "send" /\ subscribed) =>
               /\ n_sent' = n_sent + 1
               /\ chan'[Len(chan')] = [mid |-> ws_mid, seq |-> n_sent']
        /\ Len(chan') <= BufferLen
        /\ (st_pc = "recv" /\ rx_next' # rx_next) =>
               IF Backlog > BufferLen
               THEN /\ last_recv'.kind = "lagged"
                    /\ last_recv'.n = Backlog - BufferLen
                    /\ rx_next' = rx_next + (Backlog - BufferLen)
                    /\ Head(chan).seq = rx_next'
                    /\ chan' = chan
                    /\ st_pc' = "recv"
               ELSE /\ last_recv'.kind = "ok"
                    /\ last_recv'.seq = rx_next
                    /\ Head(chan).seq = rx_next
                    /\ chan' = Tail(chan)
                    /\ rx_next' = rx_next + 1
      ]_vars

\* the receiver was told it missed two values and was then given the third
\* value sent, the oldest one retained
C20_Witness ==
    /\ last_recv.kind = "ok" /\ last_recv.n = 2
    /\ last_recv.seq = 3
    /\ rx_next = 4
    /\ n_sent = BufferLen + 2

\* Both legs of the market are quoted, which is when update_normalization_state
\* writes the market's state
BothLegsQuoted(m) == m \in Markets /\ Quoted(yes_token_of(m)) /\ Quoted(no_token_of(m))

\* C21: with a receiver subscribed, the step that ends the handling of a
\* stored book update sends one notification for its market exactly when both
\* legs were quoted (the update touched the normalization state), and sends
\* none otherwise; no other step sends.
C21_NotificationIffStateTouched ==
    [][ /\ (subscribed /\ ws_pc = "send" /\ ws_pc' # "send") =>
               /\ BothLegsQuoted(ws_mid) => n_sent' = n_sent + 1
               /\ ~BothLegsQuoted(ws_mid) => n_sent' = n_sent
        /\ ~(ws_pc = "send" /\ ws_pc' # "send") => n_sent' = n_sent
      ]_vars

\* An execute_arb call is between its submission of the orders and its return
InFlight == pc # "idle"

\* A notification for the market of the call in flight is waiting in the channel
NotificationWaiting ==
    /\ InFlight
    /\ \E i \in 1..Len(chan) : chan[i].mid = call.market_id

\* C22 (as claimed): when a notification for a market arrives while an
\* execute_arb for that market is in flight, the consumer is at its receive
\* point, free to take it and to dispatch a second, overlapping execute_arb.
C22_ConsumerFreeDuringExecution == NotificationWaiting => st_pc = "recv"

\* C22 (amended): dispatches never overlap. While an execute_arb is in flight
\* the strategy loop is suspended in the await of that call: it takes no
\* notification, and no other call is entered, however many notifications
\* for the market arrive meanwhile.
C22_DispatchesNeverOverlap ==
    [][ InFlight => /\ st_pc = "await" /\ st_pc' = "await"
                    /\ rx_next' = rx_next
                    /\ st_mid' = st_mid
                    /\ call' = call
                    /\ Len(history') + (IF pc' = "idle" THEN 0 ELSE 1) = Len(history) + 1
      ]_vars

\* a notification for the market in flight has arrived during the execution
C22_Witness == NotificationWaiting /\ st_pc = "await" /\ call.market_id = st_mid

\* The step is a call of record_pnl made through the RiskManager API
RecordPnlStep ==
    /\ n_risk_calls' = n_risk_calls + 1
    /\ risk_call'.op = "record_pnl"

\* C23: every call record_pnl(d) adds d to daily_pnl, so after calls with
\* d1..dk in any order daily_pnl is their sum; current_balance is always
\* initial_balance + daily_pnl; no other operation (check_trade_size,
\* enter_safe_mode, is_safe_mode) changes either field.
C23_PnlIsSumOfDeltas ==
    [][ /\ current_balance = initial_balance + daily_pnl
        /\ current_balance' = initial_balance + daily_pnl'
        /\ IF RecordPnlStep
           THEN /\ daily_pnl' = daily_pnl + risk_call'.arg
                /\ pnl_calls' = pnl_calls + 1
           ELSE /\ daily_pnl' = daily_pnl
                /\ current_balance' = current_balance
                /\ pnl_calls' = pnl_calls
      ]_vars

\* several deltas of both signs have been recorded and another operation has
\* run after them
C23_Witness ==
    /\ pnl_calls >= 3
    /\ daily_pnl = 999
    /\ current_balance = initial_balance + 999
    /\ risk_call.op = "enter_safe_mode"

\* The step submits an order, and the order is a SELL
SellSubmitted ==
    /\ Len(orders') = Len(orders) + 1
    /\ orders'[Len(orders')].side = "Sell"

\* The step is a return of execute_arb with PartialFillEmergency
EmergencyReturned ==
    /\ Len(history') = Len(history) + 1
    /\ history'[Len(history')] = "PartialFillEmergency"

\* C25: in the emergency unwind safe_mode is set before the compensating SELL
\* is submitted; the pause starts with the return of that submission and not
\* before; execute_arb returns PartialFillEmergency only out of the pause; and
\* while the pause lasts no order is submitted and the strategy loop stays
\* suspended in its await.
C25_EmergencyUnwindOrder ==
    [][ /\ SellSubmitted => (safe_mode /\ pc = "dump" /\ pc' = "sleep")
        /\ (pc # "sleep" /\ pc' = "sleep") => SellSubmitted
        /\ EmergencyReturned => (pc = "sleep" /\ safe_mode)
        /\ pc = "sleep" => /\ orders' = orders
                           /\ st_pc = "await" /\ st_pc' = "await"
                           /\ pc' \in {"sleep", "idle"}
      ]_vars

\* the pause is on, after a SELL, with a notification waiting for the consumer
C25_Witness ==
    /\ pc = "sleep"
    /\ safe_mode
    /\ SellsOf(CallOrders) # {}
    /\ chan # <<>>

\* The book store holds, for both tokens of the market, the last snapshot
\* received for the token, and has one for at least one of them
StoreCurrent(m) ==
    /\ \E t \in {yes_token_of(m), no_token_of(m)} : last_snapshot[t].seen
    /\ \A t \in {yes_token_of(m), no_token_of(m)} :
           order_books[t] =
               IF last_snapshot[t].seen
               THEN [present |-> TRUE, bids |-> Parsed(last_snapshot[t].bids),
                     asks |-> Parsed(last_snapshot[t].asks)]
               ELSE NoBook

\* The market's state was computed from the snapshots the store now holds
EdgeCurrent(m) ==
    BothLegsQuoted(m) =>
        market_state[m].last_edge =
            Scale - (LowestAsk(yes_token_of(m)) + LowestAsk(no_token_of(m)))

\* The strategy consumer is handling a notification for market m
Handling(m) == st_pc \in {"liq", "gate", "read1", "read2"} /\ st_mid = m

\* C26: the feed task stores the book, then updates the market's state, then
\* sends the notification, in that order and for the same market; at the send
\* the store and the state reflect the update; and whenever the consumer is
\* handling a notification for a market, the store holds the latest snapshots
\* of that market and the state was computed from them, unless the feed task
\* is between the store and the state update of a later update of that market.
C26_StoreThenStateThenNotify ==
    [][ /\ ws_pc' # ws_pc =>
              <<ws_pc, ws_pc'>> \in {<<"read", "norm">>, <<"norm", "send">>, <<"send", "read">>}
        /\ order_books' # order_books => (ws_pc = "read" /\ ws_pc' = "norm")
        /\ \A m \in Markets :
              (\/ market_state'[m].last_edge # market_state[m].last_edge
               \/ Len(hist'[m]) > Len(hist[m])) =>
                  (ws_pc = "norm" /\ ws_pc' = "send" /\ ws_mid = m /\ StoreCurrent(m))
        /\ n_sent' # n_sent =>
              /\ ws_pc = "send" /\ ws_pc' = "read"
              /\ chan'[Len(chan')].mid = ws_mid
              /\ StoreCurrent(ws_mid)
              /\ EdgeCurrent(ws_mid)
        /\ \A m \in Markets :
              Handling(m) =>
                  /\ StoreCurrent(m)
                  /\ (ws_pc = "norm" /\ ws_mid = m) \/ EdgeCurrent(m)
      ]_vars

\* the consumer is reading the books for a notification of m1, both legs
\* quoted, while the feed task has stored a later update of m1
C26_Witness ==
    /\ Handling("m1") /\ st_pc = "read1"
    /\ BothLegsQuoted("m1")
    /\ ws_pc = "norm" /\ ws_mid = "m1"
    /\ n_sent = last_recv.seq

\* A payload handle_message drops: the "[]" heartbeat, a text that does not
\* parse, a message of another event type, a book of a token with no market
DroppedPayload(msg) ==
    \/ msg.kind \in {"heartbeat", "malformed", "unknown"}
    \/ msg.kind = "book" /\ token_to_market(msg.asset_id) = ""

\* C27: handling a dropped payload changes no stored book and no market state,
\* sends no notification (the feed task does not go on to the send) and leaves
\* the feed task at its read point, where the next message is handled; a
\* notification is sent only for the market of a token that has one.
C27_DroppedPayloadChangesNothing ==
    [][ /\ \A msg \in FeedMessages :
              (DroppedPayload(msg) /\ handle_message(msg)) =>
                  /\ UNCHANGED <<order_books, market_state, hist, chan, lagged, n_sent>>
                  /\ ws_pc' = "read"
                  /\ n_msgs' = n_msgs + 1
        /\ ws_pc' \in {"norm", "send"} => ws_mid' \in Markets
        /\ \A i \in 1..Len(chan') : chan'[i].mid \in Markets
      ]_vars

\* with the receiver subscribed from the start, every payload read so far was
\* dropped, nothing was stored or sent, and the feed task is at its read point
C27_Witness ==
    /\ subscribed /\ rx_next = 1
    /\ n_msgs = MaxIngest
    /\ ws_pc = "read"
    /\ n_sent = 0 /\ chan = <<>>
    /\ \A t \in Tokens : order_books[t] = NoBook

\* check_trade_size(required_amount) returns false at its daily-loss test,
\* having passed the safe-mode and the trade-size tests
DailyLossBranch(required_amount) ==
    /\ ~safe_mode
    /\ ~(required_amount * Scale > current_balance * max_trade_capital_pct)
    /\ daily_pnl * Scale < -loss_limit

\* C28: whenever daily_pnl is below -(initial_balance * max_daily_loss_pct),
\* safe_mode is set; so check_trade_size never returns false at its daily-loss
\* test, for any amount.
C28_LossBeyondLimitImpliesSafeMode ==
    /\ daily_pnl * Scale < -loss_limit => safe_mode
    /\ \A a \in CheckAmounts : ~DailyLossBranch(a)

\* the loss limit has been passed by recorded losses, safe_mode is set, and a
\* check of the amount 0 is refused
C28_Witness ==
    /\ pnl_calls >= 2
    /\ daily_pnl * Scale < -loss_limit
    /\ safe_mode
    /\ risk_call = [op |-> "check_trade_size", arg |-> 0, ret |-> FALSE]

\* C29: when execute_arb has returned PartialFillEmergency, current_balance and
\* daily_pnl are what they were when it was entered and record_pnl was not
\* called; of the RiskState only safe_mode may differ, and it is true.  On the
\* way (SELL pending, pause) the same holds.
C29_EmergencyLeavesPnlAlone ==
    ((Returned /\ status = "PartialFillEmergency") \/ pc \in {"dump", "sleep"}) =>
        /\ current_balance = entry.current_balance
        /\ daily_pnl = entry.daily_pnl
        /\ pnl_calls = entry.pnl_calls
        /\ safe_mode

\* a call that made a profit was followed by one that ended in the emergency,
\* which set safe_mode and sold the filled leg
C29_Witness ==
    /\ Returned /\ status = "PartialFillEmergency"
    /\ entry.daily_pnl > 0 /\ entry.pnl_calls = 1
    /\ ~entry.safe_mode /\ safe_mode
    /\ SellsOf(CallOrders) # {}

\* The strategy task is suspended: in rx.recv(), in the join of the two
\* submissions, in the submission of the SELL, or in the emergency pause
StrategySuspended ==
    \/ st_pc = "recv"
    \/ st_pc = "await" /\ pc = "join" /\ ~(Done(res_yes) /\ Done(res_no))
    \/ st_pc = "await" /\ pc \in {"dump", "sleep"}

\* The step takes the task to a suspension point: for the feed task the send
\* of the subscription after connecting and read.next() after a message has
\* been handled; for the strategy task rx.recv(), the join, the submission of
\* the SELL and the pause
ReachesSuspension(task) ==
    IF task = "feed"
    THEN \/ conn_pc = "connect" /\ conn_pc' = "connected"
         \/ ws_pc = "send" /\ ws_pc' = "read"
    ELSE \/ st_pc # "recv" /\ st_pc' = "recv"
         \/ pc # pc' /\ pc' \in {"join", "dump", "sleep"}

\* C24: a task that reaches a suspension point holds no guard, and the
\* strategy task holds none while it is suspended in recv, in an order
\* submission or in the emergency pause; a task holds at most one guard at a
\* time, and no two tasks hold conflicting guards.
C24_NoLockAcrossSuspension ==
    [][ /\ \A task \in Tasks : ReachesSuspension(task) => held'[task] = {}
        /\ StrategySuspended => held["strategy"] = {}
        /\ \A task \in Tasks : Cardinality(held[task]) <= 1
        /\ \A g \in held["feed"], h \in held["strategy"] :
              g.lock = h.lock => (g.mode = "read" /\ h.mode = "read")
      ]_vars

\* the emergency pause is on, entered through the RiskState lock, while the
\* feed task holds the order-book lock for an insertion
C24_Witness ==
    /\ pc = "sleep" /\ st_pc = "await"
    /\ safe_mode
    /\ held["strategy"] = {}
    /\ held["feed"] = {Guard("order_books", "write")}

====
